---- MODULE Spec2Model ----
(***************************************************************************)
(* jMetalPy: the asynchronous steady-state scheduler DistributedNSGAII,    *)
(* the NSGA-II replacement rule, and the problem contract they rest on.    *)
(***************************************************************************)
EXTENDS Integers, Sequences, FiniteSets, TLC

VARIABLES
    cfg,                     \* constructor arguments of DistributedNSGAII
    pc,                      \* position of the coordinator inside run()
    evaluations,             \* self.evaluations
    population,              \* the local list `population` of run()
    population_to_evaluate,  \* the local list `population_to_evaluate` of run()
    task_pool,               \* as_completed(futures): the in-flight tasks
    result_population,       \* self.population (None until run() stores it)
    selection_input,         \* the list the Selection operator was last given
    step_ops,                \* the calls the last loop body made, in order
    observed,                \* the events received by the observers
    ga,                      \* the generational NSGAII: its population and phase
    sel,                     \* the ranking and selection components and their input
    lab,                     \* laboratory: the Jobs, the Experiment and its executor
    mesh,                    \* TwoDimensionalMesh and the arguments of get_neighbors
    prob                     \* a Problem and the last solution it created

vars == <<cfg, pc, evaluations, population, population_to_evaluate, task_pool,
          result_population, selection_input, step_ops, observed, ga, sel, lab,
          mesh, prob>>

schedulerVars == <<cfg, pc, evaluations, population, population_to_evaluate,
                   task_pool, result_population, selection_input, step_ops,
                   observed>>

\* The state of the components other than the scheduler
componentVars == <<ga, sel, lab, mesh, prob>>

----------------------------------------------------------------------------
(* Bounds of the model *)

MaxCores  == 2      \* number_of_cores ranges over 0..MaxCores
MaxPop    == 2      \* population_size ranges over 0..MaxPop
MaxBudget == 10     \* max_evaluations ranges over -1..MaxBudget
MaxGen    == 2      \* generations of the generational NSGAII that are explored
MaxSel    == 3      \* size of the populations given to the selection components
MaxJobs   == 2      \* jobs of an Experiment
MaxWorkers == 2     \* m_workers ranges over 1..MaxWorkers
MaxMesh   == 3      \* rows and columns of a TwoDimensionalMesh
MaxVars   == 2      \* number_of_variables ranges over 0..MaxVars
MaxBound  == 1      \* the variable bounds range over -MaxBound..MaxBound

----------------------------------------------------------------------------
(* Solutions *)

\* Python's None
None == [none |-> TRUE]

IsNone(s) == DOMAIN s = {"none"}

\* The objective vectors an evaluation can produce: the three points of the
\* dominance scenario (two mutually non-dominated, both dominating the third).
ObjVectors == {<<1, 4>>, <<2, 3>>, <<5, 5>>}

\* A solution as the coordinator sees it. `origin` is the identity of the
\* object: i > 0 for the i-th element of population_to_evaluate, 0 for every
\* solution created later (create_solution in the loop, crossover offspring).
\* A new solution has its objectives at zero until it is evaluated.
NewSolution(origin) ==
    [origin |-> origin, objectives |-> <<0, 0>>, constraints |-> <<>>]

Evaluated(s, objs) == [s EXCEPT !.objectives = objs]

\* A name that holds None or a list: None, and the list of the given items
NoneList == [is_none |-> TRUE, items |-> <<>>]

ListOf(items) == [is_none |-> FALSE, items |-> items]

----------------------------------------------------------------------------
(* Sequence helpers *)

Range(s) == {s[i] : i \in DOMAIN s}

\* Body(v), with v evaluated once
Bind(v, Body(_)) == CHOOSE r \in {Body(x) : x \in {v}} : TRUE

\* The function f as an explicit table of its values
Table(f) == f @@ <<>>

\* Python's sorted(): the stable sort of the sequence idx by the strict
\* order less(_, _) on its elements.
StableSort(idx, less(_, _)) ==
    LET sort(s) ==
          LET n == Len(s)
              place(pos) == [p \in 1..n |-> s[CHOOSE j \in 1..n : pos[j] = p]]
          IN Table(Bind(Table([j \in 1..n |->
                     1 + Cardinality({i \in 1..n : less(s[i], s[j])})
                       + Cardinality({i \in 1..(j-1) : /\ ~less(s[i], s[j])
                                                       /\ ~less(s[j], s[i])})]),
                  place))
    IN Bind(idx, sort)

\* The elements of a set of integers in increasing order
SortedSeq(S) ==
    [p \in 1..Cardinality(S) |->
        CHOOSE x \in S : Cardinality({y \in S : y < x}) = p - 1]

RECURSIVE SumSeq(_)
SumSeq(s) == IF s = <<>> THEN 0 ELSE Head(s) + SumSeq(Tail(s))

RECURSIVE ProdSeq(_)
ProdSeq(s) == IF s = <<>> THEN 1 ELSE Head(s) * ProdSeq(Tail(s))

RECURSIVE Flatten(_)
Flatten(ss) == IF ss = <<>> THEN <<>> ELSE Head(ss) \o Flatten(Tail(ss))

SubSeqTo(s, n) == [i \in 1..n |-> s[i]]

----------------------------------------------------------------------------
(* DominanceComparator *)

\* Total constraint violation: constraints[i] < 0 is a violation of that size
overall_constraint_violation(s) ==
    SumSeq([i \in DOMAIN s.constraints |->
               IF s.constraints[i] < 0 THEN 0 - s.constraints[i] ELSE 0])

\* Pareto dominance on the objectives, minimisation
dominance_test(a, b) ==
    LET M == DOMAIN a.objectives
        aBetter == \E i \in M : a.objectives[i] < b.objectives[i]
        bBetter == \E i \in M : b.objectives[i] < a.objectives[i]
    IN IF aBetter /\ ~bBetter THEN 0 - 1
       ELSE IF bBetter /\ ~aBetter THEN 1
       ELSE 0

\* Mutant: the violations are compared only to tell a feasible solution from
\* an infeasible one
compare_feasibility_only(a, b) ==
    LET va == overall_constraint_violation(a)
        vb == overall_constraint_violation(b)
    IN IF va = 0 /\ vb > 0 THEN 0 - 1
       ELSE IF vb = 0 /\ va > 0 THEN 1
       ELSE dominance_test(a, b)

\* compare(a, b): -1 when a dominates b, 1 when b dominates a, 0 otherwise
compare(a, b) ==
    LET va == overall_constraint_violation(a)
        vb == overall_constraint_violation(b)
    IN IF va < vb THEN 0 - 1
       ELSE IF vb < va THEN 1
       ELSE dominance_test(a, b)

Dominates(a, b) == compare(a, b) = 0 - 1

----------------------------------------------------------------------------
(* FastNonDominatedSort: the fronts of a population P, as sequences of     *)
(* indices into P, in rank order                                           *)

\* For every solution, the set of the solutions that dominate it
Dominators(P) ==
    [q \in DOMAIN P |-> {p \in DOMAIN P : Dominates(P[p], P[q])}]

\* Mutant: a solution joins the next front as soon as one of its dominators
\* is processed
NextFront_any_dominator(dom, assigned, current) ==
    LET cand == {q \in DOMAIN dom \ assigned : dom[q] \cap Range(current) # {}}
        lastDom(q) == CHOOSE k \in 1..Len(current) :
                         /\ current[k] \in dom[q]
                         /\ \A k2 \in (k+1)..Len(current) : current[k2] \notin dom[q]
        sort(last) == LET less(q1, q2) == last[q1] < last[q2]
                      IN StableSort(SortedSeq(cand), less)
    IN Bind(Table([q \in cand |-> lastDom(q)]), sort)

\* The front after `current`: the solutions whose domination count reaches 0
\* while the members of `current` are processed in order
NextFront(dom, assigned, current) ==
    LET cand == {q \in DOMAIN dom \ assigned : dom[q] \subseteq assigned}
        lastDom(q) == CHOOSE k \in 1..Len(current) :
                         /\ current[k] \in dom[q]
                         /\ \A k2 \in (k+1)..Len(current) : current[k2] \notin dom[q]
        sort(last) == LET less(q1, q2) == last[q1] < last[q2]
                      IN StableSort(SortedSeq(cand), less)
    IN Bind(Table([q \in cand |-> lastDom(q)]), sort)

RECURSIVE RankFrom(_, _, _)
RankFrom(dom, assigned, current) ==
    IF current = <<>> THEN <<>>
    ELSE LET rest(next) == RankFrom(dom, assigned \cup Range(current), next)
         IN <<current>> \o Bind(NextFront(dom, assigned \cup Range(current), current),
                                rest)

FastNonDominatedSort(P) ==
    LET rank(dom) == RankFrom(dom, {}, SortedSeq({q \in DOMAIN P : dom[q] = {}}))
    IN Bind(Table(Dominators(P)), rank)

----------------------------------------------------------------------------
(* CrowdingDistance of the members of one front F (indices into P).  A     *)
(* distance is [inf, val]: val is the sum over the objectives of           *)
(* (next - previous) / (max - min), scaled by the product of the nonzero   *)
(* ranges of the front so that it stays an integer.                        *)

ObjRange(P, F, m) ==
    LET vals == {P[F[i]].objectives[m] : i \in DOMAIN F}
        hi == CHOOSE v \in vals : \A w \in vals : w <= v
        lo == CHOOSE v \in vals : \A w \in vals : v <= w
    IN hi - lo

SortedByObjective(P, F, m) ==
    LET less(a, b) == P[a].objectives[m] < P[b].objectives[m]
    IN StableSort(F, less)

\* The distances, given the range of every objective and the front sorted by
\* every objective
Distances(P, F, range, sorted) ==
    LET M == DOMAIN range
        n == Len(F)
        scale(m) == ProdSeq([k \in M |->
                       IF k = m \/ range[k] = 0 THEN 1 ELSE range[k]])
        \* the contribution of objective m to the solution at place k of sorted[m]
        part(m, k) ==
            IF range[m] = 0 THEN 0
            ELSE (P[sorted[m][k+1]].objectives[m]
                    - P[sorted[m][k-1]].objectives[m]) * scale(m)
        place(q, m) == CHOOSE k \in 1..n : sorted[m][k] = q
        boundary(q) == \E m \in M : place(q, m) \in {1, n}
    IN [q \in Range(F) |->
          [inf |-> boundary(q),
           val |-> IF boundary(q) THEN 0
                   ELSE SumSeq([m \in M |-> part(m, place(q, m))])]]

CrowdingDistance(P, F) ==
    LET M == DOMAIN P[F[1]].objectives
        withRange(range) ==
            LET withSorted(sorted) == Distances(P, F, range, sorted)
            IN Bind(Table([m \in M |-> SortedByObjective(P, F, m)]), withSorted)
    IN Bind(Table([m \in M |-> ObjRange(P, F, m)]), withRange)

\* Mutant: the front is sorted by crowding distance, smallest first
SortedByCrowding_ascending(P, F) ==
    LET sort(d) ==
          LET less(a, b) == \/ ~d[a].inf /\ d[b].inf
                            \/ ~d[a].inf /\ ~d[b].inf /\ d[a].val < d[b].val
          IN StableSort(F, less)
    IN Bind(Table(CrowdingDistance(P, F)), sort)

\* The front sorted by crowding distance, largest first, infinity before all
SortedByCrowding(P, F) ==
    LET sort(d) ==
          LET less(a, b) == \/ d[a].inf /\ ~d[b].inf
                            \/ ~d[a].inf /\ ~d[b].inf /\ d[a].val > d[b].val
          IN StableSort(F, less)
    IN Bind(Table(CrowdingDistance(P, F)), sort)

----------------------------------------------------------------------------
(* RankingAndCrowdingDistanceSelection(k).execute(P)                       *)

\* Mutant: the front that does not fit is dropped instead of truncated
RECURSIVE Accumulate_whole_fronts(_, _, _, _)
Accumulate_whole_fronts(P, fronts, k, acc) ==
    IF Len(acc) >= k \/ fronts = <<>> THEN acc
    ELSE IF Len(Head(fronts)) <= k - Len(acc)
         THEN Accumulate_whole_fronts(P, Tail(fronts), k, acc \o Head(fronts))
         ELSE acc

RECURSIVE Accumulate(_, _, _, _)
Accumulate(P, fronts, k, acc) ==
    IF Len(acc) >= k \/ fronts = <<>> THEN acc
    ELSE IF Len(Head(fronts)) <= k - Len(acc)
         THEN Accumulate(P, Tail(fronts), k, acc \o Head(fronts))
         ELSE acc \o SubSeqTo(SortedByCrowding(P, Head(fronts)), k - Len(acc))

\* Mutant: the selection removes the worst member of its input, whatever k
SelectIndices_drop_worst(P, k) ==
    LET take(fronts) == Accumulate(P, fronts, Len(P) - 1, <<>>)
    IN Bind(FastNonDominatedSort(P), take)

\* The indices of the survivors, in the order of the result list
SelectIndices(P, k) ==
    LET take(fronts) == Accumulate(P, fronts, k, <<>>)
    IN Bind(FastNonDominatedSort(P), take)

RankingAndCrowdingDistanceSelection(P, k) ==
    LET select(Q) ==
          LET pick(idx) == Table([i \in DOMAIN idx |-> Q[idx[i]]])
          IN Bind(SelectIndices(Q, k), pick)
    IN Bind(P, select)

\* The ranking reads the objectives and attributes of every member: a None
\* in the list, or an empty list, raises
SelectionRaises(P) == P = <<>> \/ \E i \in DOMAIN P : IsNone(P[i])

----------------------------------------------------------------------------
(* Problem.evaluate *)

\* The problems the scheduler is run on: one whose evaluate returns the
\* solution it filled, as Problem.evaluate documents, and DTLZ1
Problems == {"conforming", "DTLZ1"}

\* DTLZ1.evaluate fills solution.objectives and ends without a return
\* statement: the call yields None
DTLZ1_evaluate(solution, objs) == None

\* What problem.evaluate(solution) returns when the objective function gives
\* the vector objs
evaluate(problem, solution, objs) ==
    IF problem = "DTLZ1" THEN DTLZ1_evaluate(solution, objs)
    ELSE Evaluated(solution, objs)

\* The worker evaluates the copy of the solution that the execution service
\* sent to it, and future.result() is a copy of what evaluate returned: a new
\* object on the coordinator's side
worker_copy(solution) == [solution EXCEPT !.origin = 0]

----------------------------------------------------------------------------
(* The execution service: client.submit and as_completed.  task_pool is    *)
(* the sequence of the tasks in flight, in submission order.  A task has   *)
(* done = 0 while its future is in task_pool.futures, and done = k > 0     *)
(* when it is the k-th entry of the queue of completed futures.            *)

\* client.submit(self.problem.evaluate, solution)
submit(solution) ==
    [solution |-> solution, status |-> "pending", value |-> None, done |-> 0]

\* task_pool.futures: the futures that have not completed
futures(pool) == {i \in DOMAIN pool : pool[i].done = 0}

\* the futures that completed and were not yet handed to the loop
queue(pool) == {i \in DOMAIN pool : pool[i].done > 0}

\* Mutant: the completed futures are handed out in submission order
next_future_in_submission_order(pool) ==
    CHOOSE i \in DOMAIN pool :
        pool[i].done > 0 /\ \A k \in 1..(i-1) : pool[k].done = 0

\* The future the iterator yields next: the head of the queue
next_future(pool) == CHOOSE i \in DOMAIN pool : pool[i].done = 1

\* The pool once the iterator has yielded the future at index i
yield(pool, i) ==
    LET rest == [k \in 1..(Len(pool) - 1) |-> IF k < i THEN pool[k] ELSE pool[k+1]]
    IN [k \in DOMAIN rest |->
          IF rest[k].done > 0 THEN [rest[k] EXCEPT !.done = @ - 1] ELSE rest[k]]

\* Mutant: the new task is submitted and never added to the pool
add_lost(pool, task) == pool

\* task_pool.add(new_task)
add(pool, task) == Append(pool, task)

\* for future in task_pool.futures: future.cancel()
cancel_all(pool) ==
    [k \in DOMAIN pool |->
        IF pool[k].done = 0 THEN [pool[k] EXCEPT !.status = "cancelled"] ELSE pool[k]]

----------------------------------------------------------------------------
(* DistributedNSGAII *)

\* Mutant: the completion is not counted when it is taken
intake_skipped(evals) == evals

\* Line 154, self.evaluations += 1 on intake of a completion
intake(evals) == evals + 1

\* Mutant: the end of the loop body does not count
bookkeeping_skipped(evals) == evals

\* Line 195, self.evaluations += 1 at the end of the loop body
bookkeeping(evals) == evals + 1

\* Mutant: the joined population is kept without the selection
steady_replacement_unselected(pop, offspring_population, population_size) ==
    pop \o offspring_population

\* Lines 169-171: the replacement of a steady-state step
steady_replacement(pop, offspring_population, population_size) ==
    RankingAndCrowdingDistanceSelection(pop \o offspring_population, population_size)

\* Mutant: the initial population is one solution short
create_initial_population_one_short(number_of_cores) ==
    [i \in 1..(number_of_cores - 1) |-> NewSolution(i)]

\* create_initial_population: number_of_cores new solutions
create_initial_population(number_of_cores) ==
    [i \in 1..number_of_cores |-> NewSolution(i)]

\* update_progress(population): the event handed to observable.notify_all
update_progress(evals, solutions) ==
    [EVALUATIONS |-> evals, SOLUTIONS |-> solutions]

\* Mutant: the observers are notified at the end of every loop body
notify_every_step(obs, evals, pte) == Append(obs, update_progress(evals, pte))

\* if self.evaluations % 10 == 0: self.update_progress(population_to_evaluate)
notify(obs, evals, pte) ==
    IF evals % 10 = 0 THEN Append(obs, update_progress(evals, pte)) ELSE obs

\* Lines 157-161: the calls of the loop body while the population fills
fill_operations ==
    <<"future.result", "population.append", "create_solution", "client.submit",
      "task_pool.add">>

\* Lines 174-177: for _ in range(2): selection_operator.execute(...)
mating_operations == [i \in 1..2 |-> "selection_operator.execute"]

\* Lines 166-187: the calls of a steady-state step, in the order of the code
steady_operations ==
    <<"future.result", "RankingAndCrowdingDistanceSelection.execute">>
      \o mating_operations
      \o <<"crossover_operator.execute", "mutation_operator.execute",
           "client.submit", "task_pool.add">>

\* Lines 190-193: the calls of the step that ends the run
cancel_operations == <<"future.cancel", "break">>

Configs ==
    [number_of_cores : 0..MaxCores, population_size : 0..MaxPop,
     max_evaluations : (0 - 1)..MaxBudget, problem : Problems,
     front : {ObjVectors}]

\* DistributedNSGAII.__init__
InitScheduler(configs) ==
    /\ cfg \in configs
    /\ pc = "init"
    /\ evaluations = 0
    /\ population = <<>>
    /\ population_to_evaluate = <<>>
    /\ task_pool = <<>>
    /\ result_population = NoneList
    /\ selection_input = <<>>
    /\ step_ops = <<>>
    /\ observed = <<>>

\* run(), lines 139-149: the initial population is created and submitted
Start ==
    /\ pc = "init"
    /\ population_to_evaluate' = create_initial_population(cfg.number_of_cores)
    /\ task_pool' = [i \in DOMAIN population_to_evaluate' |->
                        submit(population_to_evaluate'[i])]
    /\ population' = <<>>
    /\ pc' = "while"
    /\ UNCHANGED <<cfg, evaluations, result_population, selection_input,
                   step_ops, observed, componentVars>>

\* while self.evaluations < self.max_evaluations; when it fails, run() ends
\* by storing the population
WhileTest ==
    /\ pc = "while"
    /\ IF evaluations < cfg.max_evaluations
       THEN pc' = "for" /\ UNCHANGED result_population
       ELSE pc' = "done" /\ result_population' = ListOf(population)
    /\ UNCHANGED <<cfg, evaluations, population, population_to_evaluate,
                   task_pool, selection_input, step_ops, observed, componentVars>>

\* for future in task_pool: the iterator stops when no future is in flight
ForExhausted ==
    /\ pc = "for"
    /\ task_pool = <<>>
    /\ pc' = "while"
    /\ UNCHANGED <<cfg, evaluations, population, population_to_evaluate,
                   task_pool, result_population, selection_input, step_ops,
                   observed, componentVars>>

\* A worker finishes the evaluation of the task at index i with a result
Complete(i) ==
    /\ pc = "for"
    /\ i \in futures(task_pool)
    /\ \E objs \in cfg.front :
         task_pool' = [task_pool EXCEPT ![i] =
             [@ EXCEPT !.status = "finished",
                       !.value = evaluate(cfg.problem,
                                          worker_copy(task_pool[i].solution), objs),
                       !.done = Cardinality(queue(task_pool)) + 1]]
    /\ UNCHANGED <<cfg, pc, evaluations, population, population_to_evaluate,
                   result_population, selection_input, step_ops, observed,
                   componentVars>>

\* A worker's evaluation of the task at index i raises
Fail(i) ==
    /\ pc = "for"
    /\ i \in futures(task_pool)
    /\ task_pool' = [task_pool EXCEPT ![i] =
             [@ EXCEPT !.status = "error",
                       !.done = Cardinality(queue(task_pool)) + 1]]
    /\ UNCHANGED <<cfg, pc, evaluations, population, population_to_evaluate,
                   result_population, selection_input, step_ops, observed,
                   componentVars>>

\* The loop body is entered with the next completed future
Yielded == pc = "for" /\ queue(task_pool) # {}

\* Lines 154-161 and 195-198: the population is not full
FillStep ==
    /\ Yielded
    /\ Len(population) < cfg.population_size
    /\ LET f == next_future(task_pool) IN
         /\ task_pool[f].status = "finished"
         /\ population' = Append(population, task_pool[f].value)
         /\ task_pool' = add(yield(task_pool, f), submit(NewSolution(0)))
    /\ step_ops' = fill_operations
    /\ evaluations' = bookkeeping(intake(evaluations))
    /\ observed' = notify(observed, evaluations', population_to_evaluate)
    /\ UNCHANGED <<cfg, pc, population_to_evaluate, result_population,
                   selection_input, componentVars>>

\* Mutant: both children of the crossover are submitted
SteadyStepSubmitsBothChildren ==
    /\ Yielded
    /\ Len(population) >= cfg.population_size
    /\ intake(evaluations) < cfg.max_evaluations
    /\ LET f == next_future(task_pool)
           join_population == population \o <<task_pool[f].value>>
       IN
         /\ task_pool[f].status = "finished"
         /\ ~SelectionRaises(join_population)
         /\ population' = steady_replacement(population, <<task_pool[f].value>>,
                                             cfg.population_size)
         /\ selection_input' = population_to_evaluate
         /\ task_pool' = add(add(yield(task_pool, f), submit(NewSolution(0))),
                             submit(NewSolution(0)))
    /\ step_ops' = steady_operations \o <<"client.submit", "task_pool.add">>
    /\ evaluations' = bookkeeping(intake(evaluations))
    /\ observed' = notify(observed, evaluations', population_to_evaluate)
    /\ UNCHANGED <<cfg, pc, population_to_evaluate, result_population, componentVars>>

\* Lines 154-187 and 195-198: a steady-state step within the budget
SteadyStep ==
    /\ Yielded
    /\ Len(population) >= cfg.population_size
    /\ intake(evaluations) < cfg.max_evaluations
    /\ LET f == next_future(task_pool)
           join_population == population \o <<task_pool[f].value>>
       IN
         /\ task_pool[f].status = "finished"
         /\ ~SelectionRaises(join_population)
         /\ population' = steady_replacement(population, <<task_pool[f].value>>,
                                             cfg.population_size)
         /\ selection_input' = population_to_evaluate
         /\ task_pool' = add(yield(task_pool, f), submit(NewSolution(0)))
    /\ step_ops' = steady_operations
    /\ evaluations' = bookkeeping(intake(evaluations))
    /\ observed' = notify(observed, evaluations', population_to_evaluate)
    /\ UNCHANGED <<cfg, pc, population_to_evaluate, result_population, componentVars>>

\* Mutant: a failed evaluation is swallowed and its solution evaluated again
StepRetries ==
    /\ Yielded
    /\ \/ Len(population) < cfg.population_size
       \/ intake(evaluations) < cfg.max_evaluations
    /\ LET f == next_future(task_pool) IN
         /\ task_pool[f].status = "error"
         /\ task_pool' = add(yield(task_pool, f), submit(task_pool[f].solution))
    /\ step_ops' = <<"future.result", "client.submit", "task_pool.add">>
    /\ evaluations' = intake(evaluations)
    /\ UNCHANGED <<cfg, pc, population, population_to_evaluate, result_population,
                   selection_input, observed, componentVars>>

\* future.result() re-raises the exception of a failed evaluation, and the
\* ranking raises on a None in the joined population: run() is aborted
StepRaises ==
    /\ Yielded
    /\ \/ Len(population) < cfg.population_size
       \/ intake(evaluations) < cfg.max_evaluations
    /\ LET f == next_future(task_pool) IN
         /\ \/ task_pool[f].status = "error"
            \/ /\ task_pool[f].status = "finished"
               /\ Len(population) >= cfg.population_size
               /\ SelectionRaises(population \o <<task_pool[f].value>>)
         /\ task_pool' = yield(task_pool, f)
         /\ step_ops' = IF task_pool[f].status = "error"
                        THEN SubSeqTo(steady_operations, 1)
                        ELSE SubSeqTo(steady_operations, 2)
    /\ evaluations' = intake(evaluations)
    /\ pc' = "error"
    /\ UNCHANGED <<cfg, population, population_to_evaluate, result_population,
                   selection_input, observed, componentVars>>

\* Lines 188-193: the budget is exhausted, the futures are cancelled, break
CancelStep ==
    /\ Yielded
    /\ Len(population) >= cfg.population_size
    /\ ~(intake(evaluations) < cfg.max_evaluations)
    /\ task_pool' = cancel_all(yield(task_pool, next_future(task_pool)))
    /\ step_ops' = cancel_operations
    /\ evaluations' = intake(evaluations)
    /\ pc' = "while"
    /\ UNCHANGED <<cfg, population, population_to_evaluate, result_population,
                   selection_input, observed, componentVars>>

RunNext ==
    \/ Start
    \/ WhileTest
    \/ ForExhausted
    \/ \E i \in DOMAIN task_pool : Complete(i)
    \/ \E i \in DOMAIN task_pool : Fail(i)
    \/ FillStep
    \/ SteadyStep
    \/ StepRaises
    \/ CancelStep

----------------------------------------------------------------------------
(* The generational NSGAII: a population of population_size evaluated      *)
(* solutions, offspring_size children per generation, and the replacement  *)

\* Mutant: the joined population is returned without the selection
replacement_unselected(pop, offspring_population, population_size) ==
    pop \o offspring_population

\* NSGAII.replacement(population, offspring_population)
replacement(pop, offspring_population, population_size) ==
    RankingAndCrowdingDistanceSelection(pop \o offspring_population, population_size)

\* The lists of n evaluated solutions
Evaluations(n) ==
    {[i \in 1..n |-> Evaluated(NewSolution(0), v[i])] : v \in [1..n -> ObjVectors]}

\* The scheduler is not running
SchedulerIdle ==
    /\ cfg = [number_of_cores |-> 0, population_size |-> 0, max_evaluations |-> 0,
              problem |-> "conforming", front |-> {}]
    /\ pc = "idle"
    /\ evaluations = 0
    /\ population = <<>>
    /\ population_to_evaluate = <<>>
    /\ task_pool = <<>>
    /\ result_population = NoneList
    /\ selection_input = <<>>
    /\ step_ops = <<>>
    /\ observed = <<>>

GaIdle == ga = [phase |-> "idle"]

\* INIT and EVALUATING_INITIAL: population_size solutions, all evaluated
GaInit ==
    \E n \in 1..MaxPop, k \in 1..MaxPop :
      \E initial \in Evaluations(n) :
        ga = [phase |-> "SELECT", population_size |-> n, offspring_size |-> k,
              population |-> initial, offspring_population |-> <<>>,
              join_population |-> <<>>, generation |-> 0]

\* SELECT, VARY and EVALUATE_OFFSPRING: offspring_size evaluated children
GaVary ==
    /\ ga.phase = "SELECT"
    /\ ga.generation < MaxGen
    /\ \E children \in Evaluations(ga.offspring_size) :
         ga' = [ga EXCEPT !.phase = "REPLACE", !.offspring_population = children]
    /\ UNCHANGED <<schedulerVars, sel, lab, mesh, prob>>

\* REPLACE and CHECK_TERMINATION
GaReplace ==
    /\ ga.phase = "REPLACE"
    /\ ga' = [ga EXCEPT
                !.phase = "SELECT",
                !.join_population = ga.population \o ga.offspring_population,
                !.population = replacement(ga.population, ga.offspring_population,
                                           ga.population_size),
                !.generation = @ + 1]
    /\ UNCHANGED <<schedulerVars, sel, lab, mesh, prob>>

GaNext == GaVary \/ GaReplace

----------------------------------------------------------------------------
(* The ranking and selection components on their own: a population P of    *)
(* evaluated solutions and a target size k <= len(P) are ranked, selected  *)
(* from, and the selection is run again on its own output                  *)

\* The objective vectors of the populations: the dominance scenario and one
\* more point on its first front
SelVectors == ObjVectors \cup {<<6, 1>>}

\* One constraint, violated by 1 or by 2
SelViolations == {<<0 - 1>>, <<0 - 2>>}

\* The feasible solutions, and infeasible ones at the best and the worst point
SelSolutions ==
    {[origin |-> 0, objectives |-> v, constraints |-> <<>>] : v \in SelVectors}
    \cup {[origin |-> 0, objectives |-> v, constraints |-> c] :
             v \in {<<1, 4>>, <<5, 5>>}, c \in SelViolations}

SelIdle == sel = [phase |-> "idle"]

\* The population and the target size handed to the components
SelInit ==
    \E n \in 1..MaxSel :
      \E P \in [1..n -> SelSolutions], k \in 0..n :
        sel = [phase |-> "input", P |-> P, k |-> k, order |-> <<>>,
               fronts |-> <<>>, distance |-> <<>>, indices |-> <<>>,
               result |-> <<>>, again |-> <<>>, again_raised |-> FALSE]

\* The front that holds the solution q
FrontOf(fronts, q) == CHOOSE j \in DOMAIN fronts : q \in Range(fronts[j])

\* DominanceComparator.compare on every pair, FastNonDominatedSort on the
\* population and CrowdingDistance on every front
SelRank ==
    /\ sel.phase = "input"
    /\ LET P == sel.P
           distances(fronts) ==
               [q \in DOMAIN P |->
                   CrowdingDistance(P, fronts[FrontOf(fronts, q)])[q]]
           ranked(fronts) ==
               [sel EXCEPT !.phase = "ranked",
                           !.order = [a \in DOMAIN P |->
                                        [b \in DOMAIN P |-> compare(P[a], P[b])]],
                           !.fronts = fronts,
                           !.distance = distances(fronts)]
       IN sel' = Bind(FastNonDominatedSort(P), ranked)
    /\ UNCHANGED <<schedulerVars, ga, lab, mesh, prob>>

\* RankingAndCrowdingDistanceSelection(k).execute(P)
SelSelect ==
    /\ sel.phase = "ranked"
    /\ sel' = [sel EXCEPT !.phase = "selected",
                          !.indices = SelectIndices(sel.P, sel.k),
                          !.result = RankingAndCrowdingDistanceSelection(sel.P, sel.k)]
    /\ UNCHANGED <<schedulerVars, ga, lab, mesh, prob>>

\* RankingAndCrowdingDistanceSelection(k).execute(result)
SelReselect ==
    /\ sel.phase = "selected"
    /\ sel' = IF SelectionRaises(sel.result)
              THEN [sel EXCEPT !.phase = "reselected", !.again_raised = TRUE]
              ELSE [sel EXCEPT !.phase = "reselected",
                               !.again = RankingAndCrowdingDistanceSelection(
                                             sel.result, sel.k)]
    /\ UNCHANGED <<schedulerVars, ga, lab, mesh, prob>>

SelNext == SelRank \/ SelSelect \/ SelReselect

----------------------------------------------------------------------------
(* laboratory: Job and Experiment.  A job is [executed, ran, running,      *)
(* runner]: executed is Job.executed, ran tells that algorithm.run() has   *)
(* returned (the algorithm holds a result), running and runner tell        *)
(* whether Job.run is on a stack and whose.  lab.work is the executor's    *)
(* list of submitted work items.                                           *)

\* Job.__init__
NewJob == [executed |-> FALSE, ran |-> FALSE, running |-> FALSE, runner |-> "none"]

\* Mutant: Job.run sets the flag before it runs the algorithm
job_run_call_marks_executed(jobs, j, runner) ==
    [jobs EXCEPT ![j].running = TRUE, ![j].runner = runner, ![j].executed = TRUE]

\* Job.run is entered: self.algorithm.run() is called
job_run_call(jobs, j, runner) ==
    [jobs EXCEPT ![j].running = TRUE, ![j].runner = runner]

\* self.algorithm.run() has returned: self.executed = True
job_run_return(jobs, j) ==
    [jobs EXCEPT ![j].running = FALSE, ![j].runner = "none",
                 ![j].ran = TRUE, ![j].executed = TRUE]

\* self.algorithm.run() raises: Job.run is left at line 34
job_run_raise(jobs, j) ==
    [jobs EXCEPT ![j].running = FALSE, ![j].runner = "none"]

\* Job.evaluate(metric): raises unless self.executed
job_evaluate(job) ==
    IF ~job.executed THEN "Algorithm must be run first" ELSE "metric"

\* executor.submit(fn): a work item waiting for a worker
work_item(fn) == [fn |-> fn, status |-> "queued"]

\* The work items that a worker process is executing
busy(work) == {w \in DOMAIN work : work[w].status = "running"}

LabIdle == lab = [pc |-> "off"]

\* The jobs are constructed and given to an Experiment
LabInit ==
    \E n \in 0..MaxJobs, m \in 1..MaxWorkers :
        lab = [pc |-> "idle", m_workers |-> m, jobs |-> [j \in 1..n |-> NewJob],
               i |-> 0, work |-> <<>>, raised |-> FALSE,
               last_evaluate |-> [job |-> 0, outcome |-> "none"]]

labOthers == <<schedulerVars, ga, sel, mesh, prob>>

\* The user calls job.run() on the job j
JobRunCall(j) ==
    /\ lab.pc = "idle"
    /\ lab' = [lab EXCEPT !.pc = "job_run", !.i = j,
                          !.jobs = job_run_call(lab.jobs, j, "caller")]
    /\ UNCHANGED labOthers

JobRunReturn ==
    /\ lab.pc = "job_run"
    /\ lab' = [lab EXCEPT !.pc = "idle", !.i = 0,
                          !.jobs = job_run_return(lab.jobs, lab.i)]
    /\ UNCHANGED labOthers

JobRunRaise ==
    /\ lab.pc = "job_run"
    /\ lab' = [lab EXCEPT !.pc = "idle", !.i = 0,
                          !.jobs = job_run_raise(lab.jobs, lab.i)]
    /\ UNCHANGED labOthers

\* The user calls job.evaluate(metric) on the job j
JobEvaluate(j) ==
    /\ lab.pc = "idle"
    /\ lab' = [lab EXCEPT !.last_evaluate =
                             [job |-> j, outcome |-> job_evaluate(lab.jobs[j])]]
    /\ UNCHANGED labOthers

\* Experiment.run is called: with ProcessPoolExecutor(max_workers=m_workers)
ExperimentRun ==
    /\ lab.pc = "idle"
    /\ lab' = [lab EXCEPT !.pc = "exp_loop", !.i = 1, !.work = <<>>,
                          !.raised = FALSE]
    /\ UNCHANGED labOthers

\* Mutant: the bound method job.run is submitted, a worker runs a copy of
\* the job
ExperimentSubmitsJobRun ==
    /\ lab.pc = "exp_loop"
    /\ lab.i <= Len(lab.jobs)
    /\ lab' = [lab EXCEPT !.i = @ + 1, !.work = Append(@, work_item("job.run"))]
    /\ UNCHANGED labOthers

\* Line 60, the argument of submit is evaluated: job.run() is called by the
\* thread that runs Experiment.run
ExperimentJobCall ==
    /\ lab.pc = "exp_loop"
    /\ lab.i <= Len(lab.jobs)
    /\ lab' = [lab EXCEPT !.pc = "exp_job",
                          !.jobs = job_run_call(lab.jobs, lab.i, "caller")]
    /\ UNCHANGED labOthers

\* job.run() returns None and executor.submit(None) queues it
ExperimentJobReturn ==
    /\ lab.pc = "exp_job"
    /\ lab' = [lab EXCEPT !.pc = "exp_loop", !.i = @ + 1,
                          !.jobs = job_run_return(lab.jobs, lab.i),
                          !.work = Append(@, work_item("None"))]
    /\ UNCHANGED labOthers

\* job.run() raises: the exception leaves the loop and the with block
ExperimentJobRaise ==
    /\ lab.pc = "exp_job"
    /\ lab' = [lab EXCEPT !.pc = "exp_exit", !.raised = TRUE,
                          !.jobs = job_run_raise(lab.jobs, lab.i)]
    /\ UNCHANGED labOthers

\* The loop over self.jobs ends
ExperimentLoopEnd ==
    /\ lab.pc = "exp_loop"
    /\ lab.i > Len(lab.jobs)
    /\ lab' = [lab EXCEPT !.pc = "exp_exit"]
    /\ UNCHANGED labOthers

\* The with block is left: executor.shutdown(wait=True) returns once every
\* work item has been executed
ExperimentExit ==
    /\ lab.pc = "exp_exit"
    /\ \A w \in DOMAIN lab.work : lab.work[w].status \in {"finished", "error"}
    /\ lab' = [lab EXCEPT !.pc = "idle", !.i = 0]
    /\ UNCHANGED labOthers

\* A free worker process takes the work item w
WorkerTake(w) ==
    /\ lab.pc \in {"exp_loop", "exp_job", "exp_exit"}
    /\ lab.work[w].status = "queued"
    /\ Cardinality(busy(lab.work)) < lab.m_workers
    /\ lab' = [lab EXCEPT !.work[w].status = "running"]
    /\ UNCHANGED labOthers

\* The worker calls the work item's fn: None is not callable, the TypeError
\* is stored in the future, which nobody reads
WorkerCall(w) ==
    /\ lab.pc \in {"exp_loop", "exp_job", "exp_exit"}
    /\ lab.work[w].status = "running"
    /\ lab' = [lab EXCEPT !.work[w].status =
                             IF lab.work[w].fn = "None" THEN "error" ELSE "finished"]
    /\ UNCHANGED labOthers

LabNext ==
    \/ \E j \in DOMAIN lab.jobs : JobRunCall(j)
    \/ JobRunReturn
    \/ JobRunRaise
    \/ \E j \in DOMAIN lab.jobs : JobEvaluate(j)
    \/ ExperimentRun
    \/ ExperimentJobCall
    \/ ExperimentJobReturn
    \/ ExperimentJobRaise
    \/ ExperimentLoopEnd
    \/ ExperimentExit
    \/ \E w \in DOMAIN lab.work : WorkerTake(w)
    \/ \E w \in DOMAIN lab.work : WorkerCall(w)

----------------------------------------------------------------------------
(* TwoDimensionalMesh(rows, columns, neighborhood).get_neighbors            *)

\* north, south, east, west
Topology == <<<<0 - 1, 0>>, <<1, 0>>, <<0, 1>>, <<0, 0 - 1>>>>

\* The position in the mesh of the neighbour of solution_index, wrapping
\* around the borders
get_neighbor(rows, columns, solution_index, neighbor) ==
    LET r == ((solution_index \div columns) + neighbor[1]) % rows
        c == ((solution_index % columns) + neighbor[2]) % columns
    IN r * columns + c

\* __find_neighbors: the neighbours of index are looked up in the list
find_neighbors(rows, columns, index, items) ==
    LET at == [n \in DOMAIN Topology |->
                  get_neighbor(rows, columns, index, Topology[n])]
    IN IF \E n \in DOMAIN at : at[n] + 1 > Len(items)
       THEN [exception |-> "IndexError", lookups |-> Len(at), neighbors |-> <<>>]
       ELSE [exception |-> "none", lookups |-> Len(at),
             neighbors |-> [n \in DOMAIN at |-> items[at[n] + 1]]]

\* Mutant: only the None list is rejected
get_neighbors_unchecked_empty(rows, columns, index, solution_list) ==
    IF solution_list.is_none
    THEN [exception |-> "NoneParameterException", lookups |-> 0, neighbors |-> <<>>]
    ELSE find_neighbors(rows, columns, index, solution_list.items)

\* get_neighbors(index, solution_list): the list is validated, then the
\* neighbours are looked up in it
get_neighbors(rows, columns, index, solution_list) ==
    IF solution_list.is_none
    THEN [exception |-> "NoneParameterException", lookups |-> 0, neighbors |-> <<>>]
    ELSE IF Len(solution_list.items) = 0
    THEN [exception |-> "InvalidConditionException", lookups |-> 0, neighbors |-> <<>>]
    ELSE find_neighbors(rows, columns, index, solution_list.items)

\* The solution lists a caller can pass: None, or n solutions
SolutionLists ==
    {NoneList} \cup {ListOf([i \in 1..n |-> i]) : n \in 0..(MaxMesh * MaxMesh)}

MeshIdle == mesh = [phase |-> "idle"]

MeshInit ==
    \E rows \in 1..MaxMesh, columns \in 1..MaxMesh :
      \E index \in 0..(rows * columns - 1), solution_list \in SolutionLists :
        mesh = [phase |-> "constructed", rows |-> rows, columns |-> columns,
                index |-> index, solution_list |-> solution_list,
                outcome |-> [exception |-> "none", lookups |-> 0,
                             neighbors |-> <<>>]]

\* neighborhood.get_neighbors(index, solution_list)
MeshGetNeighbors ==
    /\ mesh.phase = "constructed"
    /\ mesh' = [mesh EXCEPT !.phase = "called",
                            !.outcome = get_neighbors(mesh.rows, mesh.columns,
                                                      mesh.index, mesh.solution_list)]
    /\ UNCHANGED <<schedulerVars, ga, sel, lab, prob>>

MeshNext == MeshGetNeighbors

----------------------------------------------------------------------------
(* FloatProblem, IntegerProblem, BinaryProblem: create_solution              *)

\* A real number is represented by the number of halves it holds, so that
\* the draws strictly between two integers are distinct from the integers.
\* random.uniform(a, b) for integers a <= b: any real of [a, b], in halves
uniform(a, b) == {h \in (0 - 2 * MaxBound)..(2 * MaxBound) : 2 * a <= h /\ h <= 2 * b}

\* Python's int() of a real given in halves: truncation towards zero
int(h) == IF h >= 0 THEN h \div 2 ELSE 0 - ((0 - h) \div 2)

\* FloatSolution(...) and IntegerSolution(...): the constructor sizes the
\* three lists from its arguments
Solution(number_of_variables, number_of_objectives, number_of_constraints) ==
    [variables |-> [i \in 1..number_of_variables |-> 0],
     objectives |-> [i \in 1..number_of_objectives |-> 0],
     constraints |-> [i \in 1..number_of_constraints |-> 0]]

\* The draws one call of create_solution can make: one per variable
Draws(problem) ==
    IF problem.kind = "BinaryProblem"
    THEN {<<>>}
    ELSE {d \in [1..problem.number_of_variables ->
                    (0 - 2 * MaxBound)..(2 * MaxBound)] :
            \A i \in DOMAIN d :
                d[i] \in uniform(problem.lower_bound[i], problem.upper_bound[i])}

\* FloatProblem.create_solution: the variables are the draws (in halves)
FloatProblem_create_solution(problem, draws) ==
    [Solution(problem.number_of_variables, problem.number_of_objectives,
              problem.number_of_constraints)
        EXCEPT !.variables = [i \in 1..problem.number_of_variables |-> draws[i]]]

\* IntegerProblem.create_solution: the variables are the truncated draws
IntegerProblem_create_solution(problem, draws) ==
    [Solution(problem.number_of_variables, problem.number_of_objectives,
              problem.number_of_constraints)
        EXCEPT !.variables = [i \in 1..problem.number_of_variables |-> int(draws[i])]]

\* BinaryProblem.create_solution: the body is `pass`
BinaryProblem_create_solution(problem) == None

create_solution(problem, draws) ==
    CASE problem.kind = "FloatProblem" -> FloatProblem_create_solution(problem, draws)
      [] problem.kind = "IntegerProblem" -> IntegerProblem_create_solution(problem, draws)
      [] problem.kind = "BinaryProblem" -> BinaryProblem_create_solution(problem)

\* Lists of n bounds
BoundLists(n) == [1..n -> (0 - MaxBound)..MaxBound]

\* The problems: a kind, the three sizes, and for the float and integer
\* problems one pair lower_bound[i] <= upper_bound[i] per variable
BoundPairs(n) ==
    {b \in [lower_bound : BoundLists(n), upper_bound : BoundLists(n)] :
        \A i \in 1..n : b.lower_bound[i] <= b.upper_bound[i]}

ProblemInstances ==
    UNION {
        {[kind |-> kind, number_of_variables |-> n, number_of_objectives |-> m,
          number_of_constraints |-> c, lower_bound |-> b.lower_bound,
          upper_bound |-> b.upper_bound] :
            kind \in {"FloatProblem", "IntegerProblem"}, m \in 1..2, c \in 0..1,
            b \in BoundPairs(n)}
      \cup
        {[kind |-> "BinaryProblem", number_of_variables |-> n,
          number_of_objectives |-> m, number_of_constraints |-> c,
          lower_bound |-> <<>>, upper_bound |-> <<>>] : m \in 1..2, c \in 0..1}
      : n \in 0..MaxVars}

ProbIdle == prob = [phase |-> "idle"]

ProbInit ==
    \E problem \in ProblemInstances :
        prob = [phase |-> "constructed", problem |-> problem, solution |-> None]

\* problem.create_solution()
ProbCreateSolution ==
    /\ prob.phase # "idle"
    /\ \E draws \in Draws(prob.problem) :
          prob' = [prob EXCEPT !.phase = "created",
                               !.solution = create_solution(prob.problem, draws)]
    /\ UNCHANGED <<schedulerVars, ga, sel, lab, mesh>>

ProbNext == ProbCreateSolution

----------------------------------------------------------------------------
(* Specifications *)

\* Scenario D: number_of_cores = 4, population_size = 10, budget = 50, on a
\* problem whose objective function is constant
ScenarioD ==
    [number_of_cores |-> 4, population_size |-> 10, max_evaluations |-> 50,
     problem |-> "conforming", front |-> {<<1, 4>>}]

\* The scenario, and the same run on an execution service without workers
ScenarioConfigs == {ScenarioD, [ScenarioD EXCEPT !.number_of_cores = 0]}

Init == InitScheduler(Configs) /\ GaIdle /\ SelIdle /\ LabIdle /\ MeshIdle /\ ProbIdle

Next == RunNext

\* The scheduler on every small configuration
Spec == Init /\ [][Next]_vars

InitD == InitScheduler(ScenarioConfigs) /\ GaIdle /\ SelIdle /\ LabIdle /\ MeshIdle /\ ProbIdle

\* The scheduler on scenario D
SpecD == InitD /\ [][Next]_vars

InitGA == SchedulerIdle /\ GaInit /\ SelIdle /\ LabIdle /\ MeshIdle /\ ProbIdle

\* The generational NSGAII
SpecGA == InitGA /\ [][GaNext]_vars

InitSel == SchedulerIdle /\ GaIdle /\ SelInit /\ LabIdle /\ MeshIdle /\ ProbIdle

\* The ranking and selection components
SpecSel == InitSel /\ [][SelNext]_vars

InitLab == SchedulerIdle /\ GaIdle /\ SelIdle /\ LabInit /\ MeshIdle /\ ProbIdle

\* The laboratory
SpecLab == InitLab /\ [][LabNext]_vars

InitMesh == SchedulerIdle /\ GaIdle /\ SelIdle /\ LabIdle /\ MeshInit /\ ProbIdle

\* The neighbourhood
SpecMesh == InitMesh /\ [][MeshNext]_vars

\* Budgets of two notification periods
LongRunConfigs ==
    [number_of_cores : 0..MaxCores, population_size : 0..MaxPop,
     max_evaluations : {2 * MaxBudget, 2 * MaxBudget + 1}, problem : Problems,
     front : {{<<1, 4>>, <<2, 3>>}}]

InitLong == InitScheduler(LongRunConfigs) /\ GaIdle /\ SelIdle /\ LabIdle /\ MeshIdle /\ ProbIdle

\* The scheduler on budgets of two notification periods
SpecLong == InitLong /\ [][Next]_vars

\* Every small configuration, on a problem whose objective function is
\* constant
LiveConfigs ==
    [number_of_cores : 0..MaxCores, population_size : 0..MaxPop,
     max_evaluations : (0 - 1)..MaxBudget, problem : Problems,
     front : {{<<1, 4>>}}]

InitLive == InitScheduler(LiveConfigs) /\ GaIdle /\ SelIdle /\ LabIdle /\ MeshIdle /\ ProbIdle

\* The steps of the coordinator, the thread that executes run()
Coordinator ==
    \/ Start
    \/ WhileTest
    \/ ForExhausted
    \/ FillStep
    \/ SteadyStep
    \/ StepRaises
    \/ CancelStep

\* The workers: every evaluation they finish returns
Workers == \E i \in DOMAIN task_pool : Complete(i)

NextLive == Coordinator \/ Workers

\* The scheduler when no evaluation fails: the coordinator keeps running
\* (each of its steps changes pc or the counter) and the workers finish
\* every evaluation they were given
SpecLive ==
    /\ InitLive
    /\ [][NextLive]_vars
    /\ WF_<<pc, evaluations>>(Coordinator)
    /\ WF_task_pool(Workers)

InitProb == SchedulerIdle /\ GaIdle /\ SelIdle /\ LabIdle /\ MeshIdle /\ ProbInit

\* The problems
SpecProb == InitProb /\ [][ProbNext]_vars

----------------------------------------------------------------------------
(* The claims *)

\* The coordinator is inside the loop with the population full
SteadyState == pc = "for" /\ Len(population) >= cfg.population_size

\* The step consumes a completion
Consumes == evaluations' # evaluations

\* C1: while the coordinator is in the steady-state phase (population full,
\* before the final cancellation step) the task pool holds exactly
\* number_of_cores tasks: every consumed completion was replaced by one
\* submission.
C1_PoolAtCeiling ==
    SteadyState => Len(task_pool) = cfg.number_of_cores

\* C1 witness: a steady-state step has replaced the task it consumed and the
\* pool of a two-core run is full
C1_Witness ==
    /\ SteadyState
    /\ selection_input # <<>>
    /\ cfg.number_of_cores = MaxCores
    /\ Len(task_pool) = MaxCores

\* C2: in scenario D (number_of_cores = 4, population_size = 10, budget 50)
\* the run ends with the evaluations counter equal to the budget and a result
\* of population_size solutions.
C2_CounterReachesBudget ==
    (pc = "done" /\ cfg = ScenarioD) =>
        /\ evaluations = cfg.max_evaluations
        /\ Len(result_population.items) = cfg.population_size

\* The parts of C3 that do not speak of the result: the population never
\* exceeds population_size, never shrinks, grows by exactly one per consumed
\* completion until it is full and is full after every steady-state step.
C3_Size == Len(population) <= cfg.population_size

C3_Growth ==
    /\ Len(population') >= Len(population)
    /\ (Consumes /\ pc' # "error" /\ Len(population) < cfg.population_size)
          => Len(population') = Len(population) + 1
    /\ (Consumes /\ pc' # "error" /\ Len(population) >= cfg.population_size)
          => Len(population') = cfg.population_size

\* C3 as stated: the size and growth properties, and the population that
\* get_result returns after run() has exactly population_size members.
C3_Original ==
    /\ [](C3_Size /\ (pc = "done" => Len(result_population.items) = cfg.population_size))
    /\ [][C3_Growth]_vars

\* C3 amended: the size and growth properties, and the population that
\* get_result returns after run() has exactly population_size members when
\* max_evaluations >= 1; with max_evaluations <= 0 it is the empty list.
C3_Amended ==
    /\ [](/\ C3_Size
          /\ (pc = "done" /\ cfg.max_evaluations >= 1)
                => Len(result_population.items) = cfg.population_size
          /\ (pc = "done" /\ cfg.max_evaluations <= 0) => result_population = ListOf(<<>>))
    /\ [][C3_Growth]_vars

\* C3 witness: a run with the largest population has filled it, taken a
\* steady-state step and returned a full population
C3_Witness ==
    /\ pc = "done"
    /\ cfg.population_size = MaxPop
    /\ selection_input # <<>>
    /\ Len(result_population.items) = MaxPop

\* C4: once run() has returned, no submitted task is still outstanding and
\* uncancelled, whatever way the run ended (including max_evaluations <= 0),
\* and no result was added to the population after the budget was exhausted.
C4_AllCancelled ==
    pc = "done" =>
        /\ \A i \in DOMAIN task_pool : task_pool[i].status # "pending"
        /\ result_population = ListOf(population)

\* C5: the coordinator processes completions in arrival order: the future a
\* step consumes is the one that completed first among those in flight, and
\* the futures that completed after it keep their order, wherever they stand
\* in the submission order.
C5_ArrivalOrder ==
    [][Consumes =>
         \E r \in DOMAIN task_pool :
            /\ task_pool[r].done = 1
            /\ \A k \in 1..(Len(task_pool) - 1) :
                 LET old == IF k < r THEN task_pool[k] ELSE task_pool[k+1]
                 IN /\ task_pool'[k].solution = old.solution
                    /\ task_pool'[k].value = old.value
                    /\ task_pool'[k].done = IF old.done > 0 THEN old.done - 1 ELSE 0
    ]_vars

\* C5 witness: a completion has been processed while the task that was
\* submitted first is still being evaluated
C5_Witness ==
    /\ pc = "for"
    /\ evaluations > 0
    /\ Len(task_pool) > 1
    /\ task_pool[1].solution.origin = 1
    /\ task_pool[1].status = "pending"

\* The step consumes a failed future
ConsumesFailed ==
    /\ Consumes
    /\ \E r \in DOMAIN task_pool : task_pool[r].done = 1 /\ task_pool[r].status = "error"

\* The step reads the result of the future it consumes: the population is
\* filling or the budget is not exhausted
ReadsResult ==
    \/ Len(population) < cfg.population_size
    \/ intake(evaluations) < cfg.max_evaluations

\* C6 as stated: every failed future the coordinator consumes aborts the run
\* with an error, nothing is submitted in its place, and a run that ends
\* without an error has gone through the cancellation step (which consumes a
\* completion).
C6_Original ==
    /\ [][ConsumesFailed =>
             pc' = "error" /\ Len(task_pool') = Len(task_pool) - 1]_vars
    /\ [](pc = "done" => evaluations >= 1)

\* C6 amended: a failed future aborts the run, with no resubmission, when the
\* step that consumes it reads its result (population filling, or budget not
\* exhausted); a failed future consumed by the final cancellation step is
\* dropped unread and the run ends without an error; and a run ends without
\* an error only through the cancellation step or, when max_evaluations <= 0,
\* without entering the loop.
C6_Amended ==
    /\ [][(ConsumesFailed /\ ReadsResult) =>
             pc' = "error" /\ Len(task_pool') = Len(task_pool) - 1]_vars
    /\ [][(ConsumesFailed /\ ~ReadsResult) => pc' = "while"]_vars
    /\ [](pc = "done" => (evaluations >= 1 \/ cfg.max_evaluations <= 0))

\* C6 witness: a failed evaluation of a conforming problem was consumed and
\* the run is aborted
C6_Witness ==
    /\ pc = "error"
    /\ cfg.problem = "conforming"
    /\ Len(task_pool) = cfg.number_of_cores - 1

\* C7: in every steady-state step the list given to the Selection operator
\* is the current population, as it stands after the replacement of the step.
C7_ParentsFromPopulation ==
    selection_input # <<>> => selection_input = population

\* C8: every event the observers receive carries the current evaluations
\* counter and, as its solutions, the current population.
C8_EventIsSnapshot ==
    [][Len(observed') > Len(observed) =>
         /\ observed'[Len(observed')].EVALUATIONS = evaluations'
         /\ observed'[Len(observed')].SOLUTIONS = population']_vars

\* The number of members of the sequence s that equal x
Count(s, x) == Cardinality({i \in DOMAIN s : s[i] = x})

\* C9: after every replacement the population has exactly population_size
\* solutions, all drawn from the union of the parents and the offspring (no
\* solution more often than the union holds it), so the population has the
\* configured size at the start and end of every generation.
C9_ReplacementSize ==
    ga.phase \in {"SELECT", "REPLACE"} =>
        /\ Len(ga.population) = ga.population_size
        /\ ga.generation > 0 =>
              \A i \in DOMAIN ga.population :
                 Count(ga.population, ga.population[i])
                    <= Count(ga.join_population, ga.population[i])

\* C9 witness: a replacement has cut a union larger than population_size
C9_Witness ==
    /\ ga.phase = "SELECT"
    /\ ga.generation > 0
    /\ Len(ga.join_population) > ga.population_size
    /\ Len(ga.population) = ga.population_size

\* C10: evaluate returns the evaluated solution for every problem, so every
\* result a worker hands back and every member of the population is a
\* solution, never None.
C10_EvaluateReturnsSolution ==
    /\ \A i \in DOMAIN population : ~IsNone(population[i])
    /\ \A i \in DOMAIN task_pool :
          task_pool[i].status = "finished" => ~IsNone(task_pool[i].value)

\* The selection components have produced the result
SelDone == sel.phase \in {"selected", "reselected"}

\* The number of members of the fronts 1..j
FrontsSize(fronts, j) == SumSeq([i \in 1..j |-> Len(fronts[i])])

\* The front j has some but not all of its members selected by size: it is the
\* front that select truncates by crowding distance
Truncated(j) ==
    /\ FrontsSize(sel.fronts, j - 1) < sel.k
    /\ sel.k < FrontsSize(sel.fronts, j)

\* C11: select(P, k) with k <= len(P) returns exactly k solutions, each a
\* different member of P, and every front that fits as a whole below the
\* truncation boundary is in the result with all its members.
C11_SelectExactlyK ==
    SelDone =>
        /\ Len(sel.result) = sel.k
        /\ Len(sel.indices) = sel.k
        /\ \A i \in DOMAIN sel.result : sel.result[i] = sel.P[sel.indices[i]]
        /\ \A i, j \in DOMAIN sel.indices : i # j => sel.indices[i] # sel.indices[j]
        /\ \A j \in DOMAIN sel.fronts :
             FrontsSize(sel.fronts, j) <= sel.k
                => Range(sel.fronts[j]) \subseteq Range(sel.indices)

\* C11 witness: the first front fits exactly and the population has a second
\* front that is left out
C11_Witness ==
    /\ sel.phase = "selected"
    /\ Len(sel.P) = MaxSel
    /\ Len(sel.fronts) >= 2
    /\ Len(sel.fronts[1]) = 2
    /\ sel.k = 2
    /\ Range(sel.indices) = Range(sel.fronts[1])

\* C12: the fronts partition the population (every solution is in exactly one
\* front, once) and no member of a front dominates another member of it.
C12_FrontsPartition ==
    sel.phase \in {"ranked", "selected", "reselected"} =>
        /\ \A q \in DOMAIN sel.P :
             SumSeq([j \in DOMAIN sel.fronts |->
                        Cardinality({i \in DOMAIN sel.fronts[j] :
                                        sel.fronts[j][i] = q})]) = 1
        /\ \A j \in DOMAIN sel.fronts :
             \A a, b \in Range(sel.fronts[j]) : sel.order[a][b] = 0

\* C12 witness: a population ranked into a first front of two and a second
\* front
C12_Witness ==
    /\ sel.phase = "ranked"
    /\ Len(sel.fronts) = 2
    /\ Len(sel.fronts[1]) = 2
    /\ \E a \in Range(sel.fronts[1]), b \in Range(sel.fronts[2]) : sel.order[a][b] = 0 - 1

\* The lists s and t hold the same solutions, each as often
SameBag(s, t) ==
    \A x \in Range(s) \cup Range(t) :
        Cardinality({i \in DOMAIN s : s[i] = x}) = Cardinality({i \in DOMAIN t : t[i] = x})

\* C13 as stated: for every population P and k <= len(P), select run again on
\* its own output with the same k returns the same set of solutions.
C13_Original ==
    sel.phase = "reselected" =>
        ~sel.again_raised /\ SameBag(sel.again, sel.result)

\* C13 amended: for every population P and 1 <= k <= len(P), select run again
\* on its own output with the same k returns the same set of solutions; for
\* k = 0 the output is the empty list, which select rejects.
C13_Amended ==
    sel.phase = "reselected" =>
        /\ sel.k >= 1 => ~sel.again_raised /\ SameBag(sel.again, sel.result)
        /\ sel.k = 0 => sel.again_raised

\* C13 witness: the selection truncated the first front and was run again on
\* the two survivors
C13_Witness ==
    /\ sel.phase = "reselected"
    /\ Len(sel.fronts[1]) = MaxSel
    /\ sel.k = 2
    /\ Len(sel.again) = 2

\* C14 as stated: every solution of the truncated front whose crowding
\* distance is infinite is in the result, whatever the number of slots left.
C14_Original ==
    SelDone =>
        \A j \in DOMAIN sel.fronts : Truncated(j) =>
            \A q \in Range(sel.fronts[j]) :
                sel.distance[q].inf => q \in Range(sel.indices)

\* C14 amended: when the truncated front has no more infinite-distance
\* solutions than there are slots left, all of them are in the result; when
\* it has more, the slots are all filled with infinite-distance solutions.
C14_Amended ==
    SelDone =>
        \A j \in DOMAIN sel.fronts : Truncated(j) =>
            LET inf == {q \in Range(sel.fronts[j]) : sel.distance[q].inf}
                slots == sel.k - FrontsSize(sel.fronts, j - 1)
                chosen == Range(sel.fronts[j]) \cap Range(sel.indices)
            IN IF Cardinality(inf) <= slots THEN inf \subseteq chosen
               ELSE chosen \subseteq inf

\* C14 witness: a front of three with two boundary solutions is cut to two
C14_Witness ==
    /\ sel.phase = "selected"
    /\ Len(sel.fronts[1]) = 3
    /\ sel.k = 2
    /\ Cardinality({q \in Range(sel.fronts[1]) : sel.distance[q].inf}) = 2
    /\ \A q \in Range(sel.indices) : sel.distance[q].inf

\* C15: compare is a strict partial order on the solutions, constraint
\* violations included: compare(a, a) = 0, compare(a, b) = -1 exactly when
\* compare(b, a) = 1, dominance is transitive, and a solution with strictly
\* less total violation dominates whatever the objectives.
C15_StrictPartialOrder ==
    sel.phase \in {"ranked", "selected", "reselected"} =>
        \A a, b, c \in DOMAIN sel.P :
            /\ sel.order[a][b] \in {0 - 1, 0, 1}
            /\ sel.order[a][a] = 0
            /\ sel.order[a][b] = 0 - 1 <=> sel.order[b][a] = 1
            /\ (sel.order[a][b] = 0 - 1 /\ sel.order[b][c] = 0 - 1)
                  => sel.order[a][c] = 0 - 1
            /\ overall_constraint_violation(sel.P[a])
                 < overall_constraint_violation(sel.P[b]) => sel.order[a][b] = 0 - 1

\* C15 witness: a dominates b by its smaller violation although b has the
\* better objectives, b dominates c by its objectives, and a dominates c
C15_Witness ==
    /\ sel.phase = "ranked"
    /\ Len(sel.P) = 3
    /\ sel.order[1][2] = 0 - 1
    /\ dominance_test(sel.P[1], sel.P[2]) = 1
    /\ overall_constraint_violation(sel.P[2]) = overall_constraint_violation(sel.P[3])
    /\ sel.order[2][3] = 0 - 1
    /\ sel.order[1][3] = 0 - 1

\* C16: get_neighbors rejects an invalid solution list before any lookup: a
\* None list raises NoneParameterException and an empty list raises
\* InvalidConditionException, for every solution index.
C16_RejectsInvalidList ==
    mesh.phase = "called" =>
        /\ mesh.solution_list.is_none
              => /\ mesh.outcome.exception = "NoneParameterException"
                 /\ mesh.outcome.lookups = 0
        /\ (~mesh.solution_list.is_none /\ mesh.solution_list.items = <<>>)
              => /\ mesh.outcome.exception = "InvalidConditionException"
                 /\ mesh.outcome.lookups = 0

\* C16 witness: get_neighbors was called with the empty list on the last
\* position of the largest mesh
C16_Witness ==
    /\ mesh.phase = "called"
    /\ mesh.index = MaxMesh * MaxMesh - 1
    /\ ~mesh.solution_list.is_none
    /\ mesh.solution_list.items = <<>>
    /\ mesh.outcome.exception = "InvalidConditionException"

\* C17: the executed flag of a job is false on construction, true exactly
\* when algorithm.run() has returned for it (so it stays false when the run
\* raises), never goes back to false, and Job.evaluate raises 'Algorithm must
\* be run first' exactly when the flag is false.
C17_ExecutedAfterRun ==
    /\ [](\A j \in DOMAIN lab.jobs : lab.jobs[j].executed <=> lab.jobs[j].ran)
    /\ [][\A j \in DOMAIN lab.jobs :
             lab.jobs[j].executed => lab.jobs'[j].executed]_vars
    /\ [][lab.last_evaluate' # lab.last_evaluate =>
             (lab.last_evaluate'.outcome = "Algorithm must be run first"
                <=> ~lab.jobs[lab.last_evaluate'.job].ran)]_vars

\* C17 witness: of two jobs the first has run, the run of the other raised,
\* and evaluate on the other was refused
C17_Witness ==
    /\ lab.pc = "idle"
    /\ lab.raised
    /\ Len(lab.jobs) = 2
    /\ lab.jobs[1].executed
    /\ ~lab.jobs[2].executed
    /\ lab.last_evaluate = [job |-> 2, outcome |-> "Algorithm must be run first"]

\* C18: while Experiment.run is active every running job is run by a worker
\* of the executor, and no more than m_workers jobs run at the same time.
C18_JobsRunOnWorkers ==
    lab.pc \in {"exp_loop", "exp_job", "exp_exit"} =>
        /\ \A j \in DOMAIN lab.jobs :
              lab.jobs[j].running => lab.jobs[j].runner = "worker"
        /\ Cardinality({j \in DOMAIN lab.jobs : lab.jobs[j].running}) <= lab.m_workers

\* C19: every steady-state step within the budget takes the completed
\* solution as the one joining candidate, replaces the population by
\* select(population + candidate, population_size), selects two parents,
\* applies crossover and then mutation, and submits exactly one offspring, in
\* this order and each once.
C19_SteadyStepOrder ==
    [][(Consumes /\ Len(population) >= cfg.population_size /\ pc' = "for") =>
         \E r \in DOMAIN task_pool :
           /\ task_pool[r].done = 1
           /\ population' = RankingAndCrowdingDistanceSelection(
                                population \o <<task_pool[r].value>>,
                                cfg.population_size)
           /\ step_ops' = <<"future.result",
                            "RankingAndCrowdingDistanceSelection.execute",
                            "selection_operator.execute",
                            "selection_operator.execute",
                            "crossover_operator.execute",
                            "mutation_operator.execute",
                            "client.submit", "task_pool.add">>
           /\ Len(task_pool') = Len(task_pool)
           /\ task_pool'[Len(task_pool')].status = "pending"
           /\ Cardinality(futures(task_pool')) = Cardinality(futures(task_pool)) + 1
    ]_vars

\* C19 witness: a steady-state step has replaced a full population of the
\* largest size and submitted its offspring
C19_Witness ==
    /\ pc = "for"
    /\ step_ops = steady_operations
    /\ cfg.population_size = MaxPop
    /\ Len(population) = MaxPop
    /\ Len(task_pool) = MaxCores

\* Exactly one evaluation was submitted by the step
OneSubmitted ==
    /\ Len(task_pool') = Len(task_pool)
    /\ Cardinality(futures(task_pool')) = Cardinality(futures(task_pool)) + 1

\* C20 as stated: a completion processed without stopping advances the
\* counter by 2 and submits one evaluation, in the filling phase and in the
\* steady state; only the completion that triggers the cancellation advances
\* the counter by 1.
C20_Original ==
    [][Consumes =>
         /\ pc' = "for" => (evaluations' = evaluations + 2 /\ OneSubmitted)
         /\ pc' # "for" => evaluations' = evaluations + 1
         /\ evaluations' = evaluations + 1 => (pc' = "while" /\ ~ReadsResult)
    ]_vars

\* C20 amended: a completion processed without stopping advances the counter
\* by 2 and submits one evaluation, in the filling phase and in the steady
\* state; the counter advances by 1, with nothing submitted, for the
\* completion that triggers the cancellation and for a completion whose
\* processing raises and aborts the run.
C20_Amended ==
    [][Consumes =>
         /\ pc' = "for" => (evaluations' = evaluations + 2 /\ OneSubmitted)
         /\ pc' # "for" => /\ evaluations' = evaluations + 1
                           /\ Len(task_pool') = Len(task_pool) - 1
         /\ evaluations' = evaluations + 1 =>
               \/ pc' = "while" /\ ~ReadsResult
               \/ pc' = "error" /\ ReadsResult
    ]_vars

\* C20 witness: a run that filled its population, took steady-state steps and
\* was ended by the cancellation
C20_Witness ==
    /\ pc = "done"
    /\ step_ops = cancel_operations
    /\ selection_input # <<>>
    /\ cfg.population_size = MaxPop
    /\ evaluations = MaxBudget + 1

\* The loop body ran to its end: the completion was processed and the loop
\* goes on
Processed == Consumes /\ pc' = "for"

\* C21: the observers are notified every 10 evaluations: a processed
\* completion ends with one notification exactly when the counter it leaves
\* is a multiple of 10, no other step notifies (the final cancellation step
\* and an aborting step emit nothing), and every multiple of 10 the counter
\* has passed has produced exactly one notification, which carries it.
C21_NotifyEveryTen ==
    /\ [][IF Processed /\ evaluations' % 10 = 0
          THEN /\ Len(observed') = Len(observed) + 1
               /\ SubSeqTo(observed', Len(observed)) = observed
               /\ observed'[Len(observed')].EVALUATIONS = evaluations'
          ELSE observed' = observed]_vars
    /\ [](/\ Len(observed) = evaluations \div 10
          /\ \A k \in DOMAIN observed : observed[k].EVALUATIONS = 10 * k)

\* C21 witness: a run was ended by the cancellation after its counter passed
\* two multiples of 10, and the observers hold the two notifications
C21_Witness ==
    /\ pc = "done"
    /\ step_ops = cancel_operations
    /\ evaluations = 2 * MaxBudget + 1
    /\ Len(observed) = 2
    /\ cfg.number_of_cores = MaxCores

\* C22: a solution whose evaluation was submitted and has not completed is
\* owned by its task alone: it is not a member of the population, not in the
\* list given to the Selection operator, and not in a snapshot handed to the
\* observers.
C22_ExclusiveOwnership ==
    \A i \in DOMAIN task_pool :
        (task_pool[i].status = "pending" /\ task_pool[i].solution.origin > 0) =>
            /\ task_pool[i].solution \notin Range(population)
            /\ task_pool[i].solution \notin Range(selection_input)
            /\ \A k \in DOMAIN observed :
                  task_pool[i].solution \notin Range(observed[k].SOLUTIONS)

\* The value of a variable of a solution, in halves
InHalves(kind, v) == IF kind = "IntegerProblem" THEN 2 * v ELSE v

\* C23: every solution returned by create_solution of a FloatProblem, an
\* IntegerProblem or a BinaryProblem has number_of_variables variables,
\* number_of_objectives objectives and number_of_constraints constraints, and
\* each variable i of a float or integer solution lies within
\* [lower_bound[i], upper_bound[i]].
C23_SolutionWellFormed ==
    prob.phase = "created" =>
        /\ ~IsNone(prob.solution)
        /\ Len(prob.solution.variables) = prob.problem.number_of_variables
        /\ Len(prob.solution.objectives) = prob.problem.number_of_objectives
        /\ Len(prob.solution.constraints) = prob.problem.number_of_constraints
        /\ prob.problem.kind # "BinaryProblem" =>
              \A i \in DOMAIN prob.solution.variables :
                 /\ 2 * prob.problem.lower_bound[i]
                       <= InHalves(prob.problem.kind, prob.solution.variables[i])
                 /\ InHalves(prob.problem.kind, prob.solution.variables[i])
                       <= 2 * prob.problem.upper_bound[i]

Larger(a, b) == IF a >= b THEN a ELSE b

\* The smallest odd number that is at least n
SmallestOddAtLeast(n) == IF n % 2 = 1 THEN n ELSE n + 1

\* The counter a returned run leaves, by the budget and the population size
FinalCount ==
    SmallestOddAtLeast(Larger(cfg.max_evaluations, 2 * cfg.population_size + 1))

\* C24 as stated: the budget is tested only on a completion that arrives
\* when the population is full, so a run never stops before its population
\* holds population_size solutions, and for number_of_cores >= 1 and
\* max_evaluations >= 1 the final counter is the smallest odd number that is
\* at least max(max_evaluations, 2 * population_size + 1).
C24_Original ==
    pc = "done" =>
        /\ Len(result_population.items) = cfg.population_size
        /\ (cfg.number_of_cores >= 1 /\ cfg.max_evaluations >= 1) =>
              evaluations = FinalCount

\* C24 amended: the budget is also tested by the loop guard before the first
\* completion. A run with max_evaluations <= 0 returns at once with an empty
\* population and the counter at 0; a run with max_evaluations >= 1 that
\* returns had number_of_cores >= 1, holds population_size solutions, and
\* its final counter is the smallest odd number that is at least
\* max(max_evaluations, 2 * population_size + 1). Inside the loop the budget
\* ends the run only on a completion that arrives when the population is
\* full.
C24_Amended ==
    /\ [](pc = "done" =>
            IF cfg.max_evaluations >= 1
            THEN /\ cfg.number_of_cores >= 1
                 /\ Len(result_population.items) = cfg.population_size
                 /\ evaluations = FinalCount
            ELSE /\ result_population = ListOf(<<>>)
                 /\ evaluations = 0)
    /\ [][(Consumes /\ pc' = "while") =>
             Len(population) >= cfg.population_size]_vars

\* C24 witness: a run with a budget of 1 returned only after its population
\* of the largest size was full, with the counter at 2 * population_size + 1
C24_Witness ==
    /\ pc = "done"
    /\ cfg.max_evaluations = 1
    /\ cfg.population_size = MaxPop
    /\ Len(result_population.items) = MaxPop
    /\ evaluations = 2 * MaxPop + 1

\* run() has ended: it returned, or an exception left it
Ended == pc \in {"done", "error"}

\* C25: when every submitted evaluation completes without failing, a run
\* with number_of_cores >= 1 eventually ends, for every population_size and
\* every max_evaluations, and it ends by returning when the problem's
\* evaluate returns solutions; a run with number_of_cores = 0 and
\* max_evaluations > 0 never ends: the coordinator alternates for ever
\* between the loop guard and the empty pool, and the counter stays at 0.
C25_Termination ==
    /\ (cfg.number_of_cores >= 1) => <>Ended
    /\ (cfg.number_of_cores >= 1 /\ cfg.problem = "conforming") => <>(pc = "done")
    /\ (cfg.number_of_cores = 0 /\ cfg.max_evaluations > 0) =>
          /\ [](~Ended /\ evaluations = 0)
          /\ []<>(pc = "while")
          /\ []<>(pc = "for" /\ task_pool = <<>>)

\* C25 witness: the largest run on a conforming problem has returned
C25_Witness ==
    /\ pc = "done"
    /\ cfg.problem = "conforming"
    /\ cfg.number_of_cores = MaxCores
    /\ cfg.population_size = MaxPop
    /\ cfg.max_evaluations = MaxBudget
    /\ Len(result_population.items) = MaxPop

\* A job is started inside Experiment.run
ExperimentStarts(j) ==
    /\ lab'.pc \in {"exp_loop", "exp_job", "exp_exit"}
    /\ ~lab.jobs[j].running
    /\ lab'.jobs[j].running

====
